---- MODULE Spec2Model ----
(***************************************************************************)
(* Model of rcublas/cublas/src/api/util.rs: the cuBLAS context lifecycle   *)
(* (API::create / destroy / get_pointer_mode / set_pointer_mode and the    *)
(* ffi_* functions behind them), the Tracker live-handle registry they     *)
(* call, the Context object that owns a handle, and the native library.    *)
(*                                                                         *)
(* Every ffi_* function is split at the points where another thread can    *)
(* interleave: taking the registry lock, the registry operation (which     *)
(* releases the lock), and the native call (after which the function       *)
(* returns).                                                               *)
(***************************************************************************)
EXTENDS Naturals, FiniteSets, TLC

\* ---- bounds -------------------------------------------------------------
NumThreads == 2      \* threads, each owning at most one Context at a time
NumHandles == 2      \* distinct handle values the native library hands out
MaxCreates == 3      \* native create calls over the whole run
MaxExplicit == 1     \* explicit API::destroy calls on one Context

Threads == 1..NumThreads
Handles == 1..NumHandles

\* ---- values -------------------------------------------------------------
NoHandle == 0        \* ptr::null_mut()
NoCtx == [h |-> NoHandle, destroys |-> 0, lastSet |-> "none", noset |-> TRUE]
NoThread == 0

\* PointerMode and the native cublasPointerMode_t
Modes == {"Host", "Device"}
CModes == {"CUBLAS_POINTER_MODE_HOST", "CUBLAS_POINTER_MODE_DEVICE"}

\* cublasStatus_t: the four statuses the code names and one standing for
\* every other status (the `_` arms)
Statuses == {"SUCCESS", "NOT_INITIALIZED", "ARCH_MISMATCH", "ALLOC_FAILED", "INTERNAL_ERROR"}

VARIABLES
    registry,     \* Tracker<cublasContext>: the set of tracked handles
    lock,         \* the thread holding the registry mutex, or NoThread
    nativeLive,   \* handles that are live inside the native library
    nativeMode,   \* the native library's pointer mode of each handle
    ctx,          \* ctx[t]: the Context thread t owns (NoCtx when none)
    pc,           \* pc[t]: where thread t is inside an API call
    local,        \* local[t]: arguments and locals of the call in progress
    ncreate,      \* native create calls made so far
    ndestroy,     \* ndestroy[h]: native destroy calls on h since h was last created
    hist,         \* hist[h]: the last of ffi_create / ffi_destroy to reach its registry call with h
    last          \* the step just taken: which call, by whom, and what it returned

vars == <<registry, lock, nativeLive, nativeMode, ctx, pc, local, ncreate, ndestroy, hist, last>>

NoLocal == [h |-> NoHandle, st |-> "none", mode |-> "none", drop |-> FALSE]
Event(t, op, h, st, res, val) == [t |-> t, op |-> op, h |-> h, st |-> st, res |-> res, val |-> val]

\* ---- Tracker (registry) operations ---------------------------------------
track(S, h) == S \cup {h}
untrack(S, h) == S \ {h}
exists(S, h) == h \in S

\* ---- Context --------------------------------------------------------------
from_c(h) == [h |-> h, destroys |-> 0, lastSet |-> "none", noset |-> TRUE]
id_c(c) == c.h
Live(c) == c # NoCtx /\ c.destroys = 0

\* ---- PointerMode <-> cublasPointerMode_t ------------------------------------
as_c(m) == IF m = "Host" THEN "CUBLAS_POINTER_MODE_HOST" ELSE "CUBLAS_POINTER_MODE_DEVICE"
PointerMode_from_c(c) == IF c = "CUBLAS_POINTER_MODE_HOST" THEN "Host" ELSE "Device"

\* ---- status-code translation ----------------------------------------------
\* the ARCH_MISMATCH and ALLOC_FAILED arms exchanged
createResult_swapped(st) ==
    CASE st = "SUCCESS" -> "Ok"
      [] st = "NOT_INITIALIZED" -> "NotInitialized"
      [] st = "ARCH_MISMATCH" -> "AllocFailed"
      [] st = "ALLOC_FAILED" -> "ArchMismatch"
      [] OTHER -> "Unknown"

createResult(st) ==
    CASE st = "SUCCESS" -> "Ok"
      [] st = "NOT_INITIALIZED" -> "NotInitialized"
      [] st = "ARCH_MISMATCH" -> "ArchMismatch"
      [] st = "ALLOC_FAILED" -> "AllocFailed"
      [] OTHER -> "Unknown"

destroyResult(st) ==
    CASE st = "SUCCESS" -> "Ok"
      [] st = "NOT_INITIALIZED" -> "NotInitialized"
      [] OTHER -> "Unknown"

getResult(st) ==
    CASE st = "SUCCESS" -> "Ok"
      [] st = "NOT_INITIALIZED" -> "NotInitialized"
      [] OTHER -> "Unknown"

\* the `_` arm of ffi_set_pointer_mode ignoring the status
setResult_ignoring(st) ==
    CASE st = "SUCCESS" -> "Ok"
      [] st = "NOT_INITIALIZED" -> "NotInitialized"
      [] OTHER -> "Ok"

setResult(st) ==
    CASE st = "SUCCESS" -> "Ok"
      [] st = "NOT_INITIALIZED" -> "NotInitialized"
      [] OTHER -> "Unknown"

\* ---- Init -------------------------------------------------------------------
Init ==
    /\ registry = {}
    /\ lock = NoThread
    /\ nativeLive = {}
    /\ nativeMode = [h \in Handles |-> "CUBLAS_POINTER_MODE_HOST"]
    /\ ctx = [t \in Threads |-> NoCtx]
    /\ pc = [t \in Threads |-> "idle"]
    /\ local = [t \in Threads |-> NoLocal]
    /\ ncreate = 0
    /\ ndestroy = [h \in Handles |-> 0]
    /\ hist = [h \in Handles |-> "never"]
    /\ last = Event(NoThread, "init", NoHandle, "none", "none", "none")

\* ---- API::create -> ffi_create --------------------------------------------
\* ffi_create whose failure arms report the error but fall through to the
\* tracking of the (null) handle
ffi_create_native_fallthrough(t) ==
    /\ pc[t] = "idle"
    /\ ctx[t] = NoCtx
    /\ ncreate < MaxCreates
    /\ ncreate' = ncreate + 1
    /\ \E st \in Statuses :
         IF st = "SUCCESS"
         THEN \E h \in Handles \ nativeLive :
                /\ nativeLive' = nativeLive \cup {h}
                /\ nativeMode' = [nativeMode EXCEPT ![h] = "CUBLAS_POINTER_MODE_HOST"]
                /\ ndestroy' = [ndestroy EXCEPT ![h] = 0]
                /\ local' = [local EXCEPT ![t] = [NoLocal EXCEPT !.h = h, !.st = st]]
                /\ pc' = [pc EXCEPT ![t] = "create_lock"]
                /\ last' = Event(t, "create_native", h, st, "none", "none")
         ELSE /\ UNCHANGED <<nativeLive, nativeMode, ndestroy>>
              /\ local' = [local EXCEPT ![t] = [NoLocal EXCEPT !.st = st]]
              /\ pc' = [pc EXCEPT ![t] = "create_lock"]
              /\ last' = Event(t, "create", NoHandle, st, createResult(st), "none")
    /\ UNCHANGED <<registry, lock, ctx, hist>>

\* cublasCreate_v2 and the match on its status. On success the handle is
\* live in the native library with the default pointer mode and the thread
\* goes on to Tracker::track; on failure ffi_create returns the error.
ffi_create_native(t) ==
    /\ pc[t] = "idle"
    /\ ctx[t] = NoCtx
    /\ ncreate < MaxCreates
    /\ ncreate' = ncreate + 1
    /\ \E st \in Statuses :
         IF st = "SUCCESS"
         THEN \E h \in Handles \ nativeLive :
                /\ nativeLive' = nativeLive \cup {h}
                /\ nativeMode' = [nativeMode EXCEPT ![h] = "CUBLAS_POINTER_MODE_HOST"]
                /\ ndestroy' = [ndestroy EXCEPT ![h] = 0]
                /\ local' = [local EXCEPT ![t] = [NoLocal EXCEPT !.h = h, !.st = st]]
                /\ pc' = [pc EXCEPT ![t] = "create_lock"]
                /\ last' = Event(t, "create_native", h, st, "none", "none")
         ELSE /\ UNCHANGED <<nativeLive, nativeMode, ndestroy, local, pc>>
              /\ last' = Event(t, "create", NoHandle, st, createResult(st), "none")
    /\ UNCHANGED <<registry, lock, ctx, hist>>

ffi_create_lock(t) ==
    /\ pc[t] = "create_lock"
    /\ lock = NoThread
    /\ lock' = t
    /\ pc' = [pc EXCEPT ![t] = "create_track"]
    /\ last' = Event(t, "lock", local[t].h, "none", "none", "none")
    /\ UNCHANGED <<registry, nativeLive, nativeMode, ctx, local, ncreate, ndestroy, hist>>

\* Tracker::track(handle); Ok(handle); Context::from_c(handle)
ffi_create_track(t) ==
    /\ pc[t] = "create_track"
    /\ lock = t
    /\ registry' = track(registry, local[t].h)
    /\ lock' = NoThread
    /\ ctx' = [ctx EXCEPT ![t] = from_c(local[t].h)]
    /\ local' = [local EXCEPT ![t] = NoLocal]
    /\ pc' = [pc EXCEPT ![t] = "idle"]
    /\ hist' = [hist EXCEPT ![local[t].h] = "create"]
    /\ last' = Event(t, "create", local[t].h, local[t].st, createResult(local[t].st), "none")
    /\ UNCHANGED <<nativeLive, nativeMode, ncreate, ndestroy>>

\* ---- API::destroy / Drop for Context -> ffi_destroy ------------------------
\* Entering ffi_destroy(*context.id_c()) and taking the registry lock for
\* Tracker::untrack. The Context keeps its handle: nothing in API::destroy
\* clears it or marks the Context as destroyed.
ffi_destroy_lock(t, drop) ==
    /\ pc[t] = "idle"
    /\ ctx[t] # NoCtx
    /\ lock = NoThread
    /\ lock' = t
    /\ ctx' = [ctx EXCEPT ![t] = [@ EXCEPT !.destroys = @ + 1, !.lastSet = "none"]]
    /\ local' = [local EXCEPT ![t] = [NoLocal EXCEPT !.h = id_c(ctx[t]), !.drop = drop]]
    /\ pc' = [pc EXCEPT ![t] = "destroy_untrack"]
    /\ last' = Event(t, "lock", id_c(ctx[t]), "none", "none", "none")
    /\ UNCHANGED <<registry, nativeLive, nativeMode, ncreate, ndestroy, hist>>

\* pub unsafe fn destroy(context: &mut Context), called by the user
API_destroy(t) ==
    /\ ctx[t].destroys < MaxExplicit
    /\ ffi_destroy_lock(t, FALSE)

\* the Context goes out of scope
Context_drop(t) == ffi_destroy_lock(t, TRUE)

\* ffi_destroy without its Tracker::untrack call: the registry keeps the handle
ffi_destroy_untrack_kept(t) ==
    /\ pc[t] = "destroy_untrack"
    /\ lock = t
    /\ lock' = NoThread
    /\ pc' = [pc EXCEPT ![t] = "destroy_native"]
    /\ hist' = [hist EXCEPT ![local[t].h] = "destroy"]
    /\ last' = Event(t, "untrack", local[t].h, "none", "none", "none")
    /\ UNCHANGED <<registry, nativeLive, nativeMode, ctx, local, ncreate, ndestroy>>

\* Tracker::untrack(handle)
ffi_destroy_untrack(t) ==
    /\ pc[t] = "destroy_untrack"
    /\ lock = t
    /\ registry' = untrack(registry, local[t].h)
    /\ lock' = NoThread
    /\ pc' = [pc EXCEPT ![t] = "destroy_native"]
    /\ hist' = [hist EXCEPT ![local[t].h] = "destroy"]
    /\ last' = Event(t, "untrack", local[t].h, "none", "none", "none")
    /\ UNCHANGED <<nativeLive, nativeMode, ctx, local, ncreate, ndestroy>>

\* ffi_destroy putting the handle back into the registry when the native
\* destroy fails
ffi_destroy_native_retrack(t) ==
    /\ pc[t] = "destroy_native"
    /\ LET h == local[t].h IN
       /\ ndestroy' = [ndestroy EXCEPT ![h] = @ + 1]
       /\ \E st \in Statuses :
            /\ nativeLive' = IF st = "SUCCESS" THEN nativeLive \ {h} ELSE nativeLive
            /\ nativeMode' = IF st = "SUCCESS" /\ h \in nativeLive
                             THEN [nativeMode EXCEPT ![h] = "CUBLAS_POINTER_MODE_HOST"]
                             ELSE nativeMode
            /\ registry' = IF st = "SUCCESS" THEN registry ELSE track(registry, h)
            /\ last' = Event(t, IF local[t].drop THEN "drop" ELSE "destroy", h, st,
                             destroyResult(st), "none")
    /\ ctx' = [ctx EXCEPT ![t] = IF local[t].drop THEN NoCtx ELSE @]
    /\ local' = [local EXCEPT ![t] = NoLocal]
    /\ pc' = [pc EXCEPT ![t] = "idle"]
    /\ UNCHANGED <<lock, ncreate, hist>>

\* cublasDestroy_v2(handle) and the match on its status. A handle that
\* is not live in the native library is a stale pointer: the call can
\* report any status.
ffi_destroy_native(t) ==
    /\ pc[t] = "destroy_native"
    /\ LET h == local[t].h IN
       /\ ndestroy' = [ndestroy EXCEPT ![h] = @ + 1]
       /\ \E st \in Statuses :
            /\ nativeLive' = IF st = "SUCCESS" THEN nativeLive \ {h} ELSE nativeLive
            /\ nativeMode' = IF st = "SUCCESS" /\ h \in nativeLive
                             THEN [nativeMode EXCEPT ![h] = "CUBLAS_POINTER_MODE_HOST"]
                             ELSE nativeMode
            /\ last' = Event(t, IF local[t].drop THEN "drop" ELSE "destroy", h, st,
                             destroyResult(st), "none")
    /\ ctx' = [ctx EXCEPT ![t] = IF local[t].drop THEN NoCtx ELSE @]
    /\ local' = [local EXCEPT ![t] = NoLocal]
    /\ pc' = [pc EXCEPT ![t] = "idle"]
    /\ UNCHANGED <<registry, lock, ncreate, hist>>

\* ---- API::get_pointer_mode -> ffi_get_pointer_mode --------------------------
ffi_get_pointer_mode_lock(t) ==
    /\ pc[t] = "idle"
    /\ ctx[t] # NoCtx
    /\ lock = NoThread
    /\ lock' = t
    /\ local' = [local EXCEPT ![t] = [NoLocal EXCEPT !.h = id_c(ctx[t])]]
    /\ pc' = [pc EXCEPT ![t] = "get_exists"]
    /\ last' = Event(t, "lock", id_c(ctx[t]), "none", "none", "none")
    /\ UNCHANGED <<registry, nativeLive, nativeMode, ctx, ncreate, ndestroy, hist>>

\* ffi_get_pointer_mode calling Tracker::untrack where it should call exists
ffi_get_pointer_mode_exists_untracking(t) ==
    /\ pc[t] = "get_exists"
    /\ lock = t
    /\ registry' = untrack(registry, local[t].h)
    /\ lock' = NoThread
    /\ pc' = [pc EXCEPT ![t] = "get_native"]
    /\ last' = Event(t, "exists", local[t].h, "none", "none", "none")
    /\ UNCHANGED <<nativeLive, nativeMode, ctx, local, ncreate, ndestroy, hist>>

\* Tracker::exists(handle); -- a statement: the bool it returns is dropped
ffi_get_pointer_mode_exists(t) ==
    /\ pc[t] = "get_exists"
    /\ lock = t
    /\ exists(registry, local[t].h) \in BOOLEAN
    /\ lock' = NoThread
    /\ pc' = [pc EXCEPT ![t] = "get_native"]
    /\ last' = Event(t, "exists", local[t].h, "none", "none", "none")
    /\ UNCHANGED <<registry, nativeLive, nativeMode, ctx, local, ncreate, ndestroy, hist>>

\* cublasGetPointerMode_v2(handle, out) and the match on its status. The
\* out slot starts as CUBLAS_POINTER_MODE_HOST; a stale handle can make
\* the call report any status and write anything or nothing.
ffi_get_pointer_mode_native(t) ==
    /\ pc[t] = "get_native"
    /\ LET h == local[t].h IN
       \E st \in Statuses :
       \E out \in (IF h \in nativeLive THEN {nativeMode[h]} ELSE CModes) :
            last' = Event(t, "get", h, st, getResult(st),
                          IF st = "SUCCESS" THEN PointerMode_from_c(out) ELSE "none")
    /\ ctx' = [ctx EXCEPT ![t] = [@ EXCEPT !.lastSet = "none"]]
    /\ local' = [local EXCEPT ![t] = NoLocal]
    /\ pc' = [pc EXCEPT ![t] = "idle"]
    /\ UNCHANGED <<registry, lock, nativeLive, nativeMode, ncreate, ndestroy, hist>>

\* ---- API::set_pointer_mode -> ffi_set_pointer_mode --------------------------
ffi_set_pointer_mode_lock(t, m) ==
    /\ pc[t] = "idle"
    /\ ctx[t] # NoCtx
    /\ lock = NoThread
    /\ lock' = t
    /\ ctx' = [ctx EXCEPT ![t] = [@ EXCEPT !.lastSet = "none", !.noset = FALSE]]
    /\ local' = [local EXCEPT ![t] = [NoLocal EXCEPT !.h = id_c(ctx[t]), !.mode = as_c(m)]]
    /\ pc' = [pc EXCEPT ![t] = "set_exists"]
    /\ last' = Event(t, "lock", id_c(ctx[t]), "none", "none", "none")
    /\ UNCHANGED <<registry, nativeLive, nativeMode, ncreate, ndestroy, hist>>

\* ffi_set_pointer_mode keeping the registry lock across the native call
ffi_set_pointer_mode_exists_locked(t) ==
    /\ pc[t] = "set_exists"
    /\ lock = t
    /\ exists(registry, local[t].h) \in BOOLEAN
    /\ pc' = [pc EXCEPT ![t] = "set_native"]
    /\ last' = Event(t, "exists", local[t].h, "none", "none", "none")
    /\ UNCHANGED <<registry, lock, nativeLive, nativeMode, ctx, local, ncreate, ndestroy, hist>>

\* Tracker::exists(handle); -- a statement: the bool it returns is dropped
ffi_set_pointer_mode_exists(t) ==
    /\ pc[t] = "set_exists"
    /\ lock = t
    /\ exists(registry, local[t].h) \in BOOLEAN
    /\ lock' = NoThread
    /\ pc' = [pc EXCEPT ![t] = "set_native"]
    /\ last' = Event(t, "exists", local[t].h, "none", "none", "none")
    /\ UNCHANGED <<registry, nativeLive, nativeMode, ctx, local, ncreate, ndestroy, hist>>

\* cublasSetPointerMode_v2(handle, pointer_mode) and the match on its
\* status. The native library stores the mode of a live handle when it
\* reports success.
ffi_set_pointer_mode_native(t) ==
    /\ pc[t] = "set_native"
    /\ LET h == local[t].h
           m == local[t].mode IN
       \E st \in Statuses :
            /\ nativeMode' = IF st = "SUCCESS" /\ h \in nativeLive
                             THEN [nativeMode EXCEPT ![h] = m]
                             ELSE nativeMode
            /\ ctx' = [ctx EXCEPT ![t] = [@ EXCEPT !.lastSet =
                           IF st = "SUCCESS" THEN PointerMode_from_c(m) ELSE "none"]]
            /\ last' = Event(t, "set", h, st, setResult(st), PointerMode_from_c(m))
    /\ local' = [local EXCEPT ![t] = NoLocal]
    /\ pc' = [pc EXCEPT ![t] = "idle"]
    /\ UNCHANGED <<registry, lock, nativeLive, ncreate, ndestroy, hist>>

\* ---- moving a Context to a new owner --------------------------------------
Move(t, u) ==
    /\ t # u
    /\ pc[t] = "idle" /\ pc[u] = "idle"
    /\ ctx[t] # NoCtx /\ ctx[u] = NoCtx
    /\ ctx' = [ctx EXCEPT ![t] = NoCtx, ![u] = ctx[t]]
    /\ last' = Event(u, "move", id_c(ctx[t]), "none", "none", "none")
    /\ UNCHANGED <<registry, lock, nativeLive, nativeMode, pc, local, ncreate, ndestroy, hist>>

Next ==
    \E t \in Threads :
        \/ ffi_create_native(t)
        \/ ffi_create_lock(t)
        \/ ffi_create_track(t)
        \/ API_destroy(t)
        \/ Context_drop(t)
        \/ ffi_destroy_untrack(t)
        \/ ffi_destroy_native(t)
        \/ ffi_get_pointer_mode_lock(t)
        \/ ffi_get_pointer_mode_exists(t)
        \/ ffi_get_pointer_mode_native(t)
        \/ \E m \in Modes : ffi_set_pointer_mode_lock(t, m)
        \/ ffi_set_pointer_mode_exists(t)
        \/ ffi_set_pointer_mode_native(t)
        \/ \E u \in Threads : Move(t, u)

Spec == Init /\ [][Next]_vars

\* ---- steps the claims speak about -------------------------------------------
\* thread t makes the native get-mode / set-mode / destroy call in this step
GetCall(t) == pc[t] = "get_native" /\ pc'[t] = "idle"
SetCall(t) == pc[t] = "set_native" /\ pc'[t] = "idle"
DestroyCall(t) == pc[t] = "destroy_native" /\ pc'[t] = "idle"
\* no thread owns a Context or is inside a call
Quiescent == \A t \in Threads : pc[t] = "idle" /\ ctx[t] = NoCtx
Errors == {"NotInitialized", "ArchMismatch", "AllocFailed", "Unknown"}

\* C1: the native get-mode / set-mode primitive is never invoked with a
\* handle that is not in the registry.
C1_NativeModeCallOnlyOnTracked ==
    [][\A t \in Threads : (GetCall(t) \/ SetCall(t)) => local[t].h \in registry]_vars

\* C2: for every handle, the native destroy primitive is invoked at most once
\* between two successful creates of that handle value.
C2_NativeDestroyAtMostOnce == \A h \in Handles : ndestroy[h] <= 1

\* C3: a handle is in the registry if and only if the last of "tracked by a
\* successful create" and "untracked by a destroy" to happen to it is the
\* tracking by a successful create.
C3_MemberIffTrackedNotUntracked == \A h \in Handles : h \in registry <=> hist[h] = "create"

C3_Witness ==
    \E h \in Handles, g \in Handles :
        /\ h \in registry /\ hist[g] = "destroy" /\ g \notin registry
        /\ last.op \in {"get", "set"}

\* C4: every handle the registry reports live belongs to a Context whose
\* destroy has not completed; when no thread owns a Context or is inside a
\* call the registry is empty; and whenever a thread still owns a Context
\* or is inside a call, some step is possible (no deadlock).
C4_RegistryConsistent ==
    /\ \A h \in registry : \E t \in Threads :
          /\ id_c(ctx[t]) = h
          /\ \/ Live(ctx[t])
             \/ ctx[t].destroys = 1 /\ pc[t] = "destroy_untrack"
    /\ Quiescent => registry = {}
    /\ ~Quiescent => ENABLED Next

C4_Witness ==
    /\ Quiescent
    /\ ncreate = MaxCreates
    /\ last.op = "drop"
    /\ \A h \in Handles : hist[h] = "destroy"

\* C5: when destroy returns, whatever status the native destroy reported,
\* the handle it was called with is not in the registry.
C5_UntrackedAfterDestroy == last.op \in {"destroy", "drop"} => last.h \notin registry

\* C6: create returns Ok exactly when the native create reports SUCCESS,
\* and then the step that returns adds the handle to the registry and the
\* new Context holds it; on every other status it returns one of the four
\* errors, no Context is made and the registry is unchanged.
C6_CreateContract ==
    [][\A t \in Threads : (last'.op = "create" /\ last'.t = t) =>
          IF last'.st = "SUCCESS"
          THEN /\ last'.res = "Ok"
               /\ last'.h \in Handles
               /\ registry' = registry \cup {last'.h}
               /\ id_c(ctx'[t]) = last'.h
          ELSE /\ last'.res \in Errors
               /\ last'.res = "NotInitialized" <=> last'.st = "NOT_INITIALIZED"
               /\ last'.res = "ArchMismatch" <=> last'.st = "ARCH_MISMATCH"
               /\ last'.res = "AllocFailed" <=> last'.st = "ALLOC_FAILED"
               /\ ctx'[t] = NoCtx
               /\ registry' = registry]_vars

C6_Witness ==
    /\ last.op = "create" /\ last.res = "AllocFailed"
    /\ registry # {}

\* C7: on a live Session, a get_pointer_mode that succeeds right after a
\* successful set_pointer_mode(m) on the same Session returns m.
C7_SetGetRoundTrip ==
    [][\A t \in Threads :
          (GetCall(t) /\ Live(ctx[t]) /\ ctx[t].lastSet \in Modes /\ last'.res = "Ok")
              => last'.val = ctx[t].lastSet]_vars

\* C8: on a live Session on which set_pointer_mode was never called, a
\* get_pointer_mode that succeeds returns Host.
C8_DefaultModeIsHost ==
    [][\A t \in Threads :
          (GetCall(t) /\ Live(ctx[t]) /\ ctx[t].noset /\ last'.res = "Ok")
              => last'.val = "Host"]_vars

\* C9: a set_pointer_mode on one live Session leaves the pointer mode of
\* every other live Session as it was.
C9_ModesIndependent ==
    [][\A t \in Threads, u \in Threads :
          (t # u /\ SetCall(t) /\ Live(ctx[t]) /\ Live(ctx[u]))
              => nativeMode'[id_c(ctx[u])] = nativeMode[id_c(ctx[u])]]_vars

\* C10: when a Session's lifetime ends (its drop returns), destroy has been
\* invoked on it exactly once.
C10_DestroyedExactlyOnce ==
    [][\A t \in Threads :
          (DestroyCall(t) /\ local[t].drop) => ctx[t].destroys = 1]_vars

\* thread t returns from a registry operation / makes the track call in this step
TrackCall(t) == pc[t] = "create_track" /\ pc'[t] = "idle"
UntrackCall(t) == pc[t] = "destroy_untrack" /\ pc'[t] = "destroy_native"
InRegistryOp == {"create_track", "destroy_untrack", "get_exists", "set_exists"}
Returns == {"create", "destroy", "drop", "get", "set"}

\* C11: a create that returns an error leaves its caller without a Context
\* and outside any call; the null handle is never tracked; and every destroy
\* in progress is on a handle that a successful create handed out.
C11_FailedCreateMakesNoSession ==
    /\ registry \subseteq Handles
    /\ \A t \in Threads :
          /\ (last.op = "create" /\ last.t = t /\ last.st # "SUCCESS") =>
                 (last.res \in Errors /\ ctx[t] = NoCtx /\ pc[t] = "idle")
          /\ pc[t] \in {"destroy_untrack", "destroy_native"} =>
                 (local[t].h \in Handles /\ hist[local[t].h] # "never")

C11_Witness ==
    /\ last.op = "create" /\ last.res = "NotInitialized"
    /\ \E u \in Threads : pc[u] = "destroy_native"

\* C12: a get_pointer_mode or set_pointer_mode through a Context on which
\* destroy has completed never returns Ok.
C12_DestroyedIsTerminal ==
    [][\A t \in Threads :
          ((GetCall(t) \/ SetCall(t)) /\ ctx[t].destroys >= 1) => last'.res # "Ok"]_vars

\* C13: every call returns Ok exactly when the native status is SUCCESS;
\* destroy, get and set return NotInitialized for NOT_INITIALIZED and Unknown
\* for every other failure; set maps every status as get does.
C13_StatusMappedExhaustively ==
    /\ last.op \in Returns =>
          /\ last.res = "Ok" <=> last.st = "SUCCESS"
          /\ last.res \in Errors \cup {"Ok"}
          /\ last.op # "create" =>
                last.res = (CASE last.st = "SUCCESS" -> "Ok"
                              [] last.st = "NOT_INITIALIZED" -> "NotInitialized"
                              [] OTHER -> "Unknown")
    /\ \A st \in Statuses : setResult(st) = getResult(st)

C13_Witness ==
    /\ last.op = "set" /\ last.st = "ALLOC_FAILED" /\ last.res = "Unknown"
    /\ last.h \in nativeLive

\* C14: the registry lock is held exactly by a thread that is inside a
\* registry operation, so never by a thread at a native call or outside a
\* call, and the holder's next step releases it.
C14_StrictCriticalSections ==
    /\ \A t \in Threads : lock = t <=> pc[t] \in InRegistryOp
    /\ lock # NoThread =>
          ENABLED (\/ ffi_create_track(lock) \/ ffi_destroy_untrack(lock)
                   \/ ffi_get_pointer_mode_exists(lock) \/ ffi_set_pointer_mode_exists(lock))

C14_Witness ==
    \E t \in Threads, u \in Threads :
        /\ pc[t] = "destroy_native" /\ lock = u /\ pc[u] = "create_track"

\* C15: the registry changes only in the track step of a successful create,
\* which adds the created handle, and in the untrack step of a destroy,
\* which removes the destroyed handle; every step of get_pointer_mode and
\* set_pointer_mode leaves it unchanged.
C15_RegistryTouchedByCreateAndDestroyOnly ==
    [][/\ registry' # registry =>
            \E t \in Threads :
               \/ TrackCall(t) /\ last'.res = "Ok" /\ registry' = registry \cup {local[t].h}
               \/ UntrackCall(t) /\ registry' = registry \ {local[t].h}
       /\ \A t \in Threads :
            (pc[t] \in {"get_exists", "get_native", "set_exists", "set_native"}
             /\ pc'[t] # pc[t]) => registry' = registry
       /\ \A t \in Threads :
            pc'[t] \in {"get_exists", "set_exists"} => registry' = registry]_vars

C15_Witness ==
    /\ last.op = "set" /\ last.res = "Unknown"
    /\ last.h \in registry
    /\ hist[last.h] = "create"

\* C16: track is never called with a handle that is already in the registry.
C16_TrackOnlyUntracked ==
    [][\A t \in Threads : TrackCall(t) => local[t].h \notin registry]_vars

\* C17: every handle in the registry is live in the native library.
C17_RegisteredIsNativeLive == registry \subseteq nativeLive
====
